---- MODULE Spec2Model ----
(***************************************************************************)
(* Form 26AS TDS summarizer (src/app.py): the section normalizer           *)
(* normalize_section and the line scan parse_form_26as_sectionwise.        *)
(*                                                                         *)
(* Text is modelled as it is in the program: a line is a sequence of       *)
(* characters (one-character strings), the regular expressions are         *)
(* matchers over those sequences, and an amount is the IEEE-754 double     *)
(* that float() returns, kept as a fixed-point bit string rounded to the   *)
(* 53 significant bits of a Python float.                                  *)
(***************************************************************************)
EXTENDS Integers, Sequences, FiniteSets, TLC

VARIABLES lines, i, in_tds_section, section_summary, pc

vars == <<lines, i, in_tds_section, section_summary, pc>>

-----------------------------------------------------------------------------
(* Characters and the character classes of Python's re module, for the     *)
(* ASCII text the input lines are written in.                              *)

Lowers == <<"a","b","c","d","e","f","g","h","i","j","k","l","m",
            "n","o","p","q","r","s","t","u","v","w","x","y","z">>

Uppers == <<"A","B","C","D","E","F","G","H","I","J","K","L","M",
            "N","O","P","Q","R","S","T","U","V","W","X","Y","Z">>

Digits == <<"0","1","2","3","4","5","6","7","8","9">>

\* \d
IsDigit(c) == \E k \in 1..Len(Digits) : Digits[k] = c

\* [A-Z] under re.IGNORECASE (and [a-z] likewise): any ASCII letter
IsLetter(c) == \E k \in 1..Len(Uppers) : Uppers[k] = c \/ Lowers[k] = c

\* \s, and the characters str.strip() removes: the blanks that occur inside
\* a line (a line holds no newline after split)
IsSpace(c) == c \in {" ", "\t"}

\* \w
IsWord(c) == IsDigit(c) \/ IsLetter(c) \/ c = "_"

\* str.upper() on one character
UpperChar(c) ==
    IF \E k \in 1..Len(Lowers) : Lowers[k] = c
    THEN Uppers[CHOOSE k \in 1..Len(Lowers) : Lowers[k] = c]
    ELSE c

\* str.upper()
Upper(s) == [k \in 1..Len(s) |-> UpperChar(s[k])]

\* int() of one decimal digit
DigitVal(c) == (CHOOSE k \in 1..Len(Digits) : Digits[k] = c) - 1

\* str.strip(): the text between the first and the last non-blank character
Strip(s) ==
    LET keep == {k \in 1..Len(s) : ~IsSpace(s[k])}
    IN  IF keep = {} THEN <<>>
        ELSE LET lo == CHOOSE k \in keep : \A m \in keep : k <= m
                 hi == CHOOSE k \in keep : \A m \in keep : m <= k
             IN  SubSeq(s, lo, hi)

\* the literal pat (written in upper case) matches s at position p, letter
\* case ignored
LitAt(s, p, pat) ==
    /\ p >= 1
    /\ p + Len(pat) - 1 <= Len(s)
    /\ \A k \in 1..Len(pat) : UpperChar(s[p + k - 1]) = pat[k]

\* \b at position p (between s[p-1] and s[p])
WordBoundary(s, p) ==
    LET before == p > 1 /\ p - 1 <= Len(s) /\ IsWord(s[p - 1])
        after  == p >= 1 /\ p <= Len(s) /\ IsWord(s[p])
    IN  before # after

\* the character classes the patterns repeat: \d, \s, [A-Z] and [\d,]
InClass(c, cls) ==
    CASE cls = "digit"  -> IsDigit(c)
      [] cls = "space"  -> IsSpace(c)
      [] cls = "letter" -> IsLetter(c)
      [] cls = "amount" -> IsDigit(c) \/ c = ","

\* length of the longest run of characters of class cls that starts at p
\* (what a greedy cls+ or cls* first consumes)
RECURSIVE RunLen(_, _, _)
RunLen(s, p, cls) ==
    IF p <= Len(s) /\ InClass(s[p], cls) THEN 1 + RunLen(s, p + 1, cls) ELSE 0

-----------------------------------------------------------------------------
(* normalize_section                                                       *)

\* re.sub(pat, rep, s, flags=re.IGNORECASE) for a literal pattern pat, with
\* a trailing \b when wb: every non-overlapping match, left to right, is
\* replaced by rep
RECURSIVE ReSubFrom(_, _, _, _, _)
ReSubFrom(s, p, pat, wb, rep) ==
    IF p > Len(s) THEN <<>>
    ELSE IF LitAt(s, p, pat) /\ (wb => WordBoundary(s, p + Len(pat)))
         THEN rep \o ReSubFrom(s, p + Len(pat), pat, wb, rep)
         ELSE <<s[p]>> \o ReSubFrom(s, p + 1, pat, wb, rep)

ReSub(pat, wb, rep, s) == ReSubFrom(s, 1, pat, wb, rep)

\* the rewrite rules, in the order the function applies them
NormalizeRules == <<
    [pat |-> <<"1","9","4","1","(","A",")">>,
     wb |-> FALSE, rep |-> <<"1","9","4","I","(","a",")">>],
    [pat |-> <<"1","9","4","1","(","B",")">>,
     wb |-> FALSE, rep |-> <<"1","9","4","I","(","b",")">>],
    [pat |-> <<"1","9","4","I","A">>,
     wb |-> TRUE, rep |-> <<"1","9","4","I","(","a",")">>],
    [pat |-> <<"1","9","4","I","B">>,
     wb |-> TRUE, rep |-> <<"1","9","4","I","(","b",")">>],
    [pat |-> <<"1","9","4","J","(","A",")">>,
     wb |-> FALSE, rep |-> <<"1","9","4","J","(","a",")">>],
    [pat |-> <<"1","9","4","J","(","B",")">>,
     wb |-> FALSE, rep |-> <<"1","9","4","J","(","b",")">>],
    [pat |-> <<"1","9","4","J","A">>,
     wb |-> TRUE, rep |-> <<"1","9","4","J","(","a",")">>],
    [pat |-> <<"1","9","4","J","B">>,
     wb |-> TRUE, rep |-> <<"1","9","4","J","(","b",")">>],
    [pat |-> <<"1","9","4","L","C","(","2",")","(","I",")">>,
     wb |-> FALSE, rep |-> <<"1","9","4","L","C","(","2",")","(","i",")">>],
    [pat |-> <<"1","9","4","L","C","(","2",")","(","I","A",")">>,
     wb |-> FALSE, rep |-> <<"1","9","4","L","C","(","2",")","(","i","a",")">>],
    [pat |-> <<"1","9","4","L","C","(","2",")","(","I","B",")">>,
     wb |-> FALSE, rep |-> <<"1","9","4","L","C","(","2",")","(","i","b",")">>],
    [pat |-> <<"1","9","4","L","C","(","2",")","(","I","C",")">>,
     wb |-> FALSE, rep |-> <<"1","9","4","L","C","(","2",")","(","i","c",")">>] >>

RECURSIVE ApplyRules(_, _)
ApplyRules(s, k) ==
    IF k > Len(NormalizeRules) THEN s
    ELSE ApplyRules(ReSub(NormalizeRules[k].pat, NormalizeRules[k].wb,
                          NormalizeRules[k].rep, s), k + 1)

\* section_raw.upper().strip(), then the rules
normalize_section(section_raw) == ApplyRules(Strip(Upper(section_raw)), 1)

-----------------------------------------------------------------------------
(* The regular expressions of parse_form_26as_sectionwise                  *)

\* PART[- ]?   matched at p: the position after it, or 0.  The optional
\* class is greedy, and giving the character back never helps, because the
\* next pattern character is the letter I.
PartPrefixEnd(s, p) ==
    IF ~LitAt(s, p, <<"P","A","R","T">>) THEN 0
    ELSE IF p + 4 <= Len(s) /\ s[p + 4] \in {"-", " "} THEN p + 5 ELSE p + 4

\* re.search(r'PART[- ]?I\b', line, re.IGNORECASE)
SearchPartI(line) ==
    \E p \in 1..Len(line) :
        LET q == PartPrefixEnd(line, p)
        IN  q # 0 /\ LitAt(line, q, <<"I">>) /\ WordBoundary(line, q + 1)

\* re.search(r'PART[- ]?II\b', line, re.IGNORECASE)
SearchPartII(line) ==
    \E p \in 1..Len(line) :
        LET q == PartPrefixEnd(line, p)
        IN  q # 0 /\ LitAt(line, q, <<"I","I">>) /\ WordBoundary(line, q + 2)

\* positions p+n, p+n-1, ..., p: where a greedy class* that can take up to n
\* characters may stop, in the order backtracking tries them
Descending(p, n) == [k \in 1..(n + 1) |-> p + n + 1 - k]

\* (?:\([a-z]\))? at q: with the group first, then without it
OptParenLetter(s, q) ==
    IF /\ q + 2 <= Len(s)
       /\ s[q] = "(" /\ IsLetter(s[q + 1]) /\ s[q + 2] = ")"
    THEN <<q + 3, q>>
    ELSE <<q>>

RECURSIVE FlatMapParen(_, _, _)
FlatMapParen(s, qs, k) ==
    IF k > Len(qs) THEN <<>>
    ELSE OptParenLetter(s, qs[k]) \o FlatMapParen(s, qs, k + 1)

\* 192A?
Alt192(s, p) ==
    IF ~LitAt(s, p, <<"1","9","2">>) THEN <<>>
    ELSE IF LitAt(s, p + 3, <<"A">>) THEN <<p + 4, p + 3>> ELSE <<p + 3>>

\* 193, 195
AltLit(s, p, pat) == IF LitAt(s, p, pat) THEN <<p + Len(pat)>> ELSE <<>>

\* the 194 alternative without its letters: 194(?:\([a-z]\))?
Alt194_NoLetters(s, p) ==
    IF ~LitAt(s, p, <<"1","9","4">>) THEN <<>>
    ELSE OptParenLetter(s, p + 3)

\* 194[A-Z]*(?:\([a-z]\))?
Alt194(s, p) ==
    IF ~LitAt(s, p, <<"1","9","4">>) THEN <<>>
    ELSE FlatMapParen(s, Descending(p + 3, RunLen(s, p + 3, "letter")), 1)

\* 1941?\([ab]\)
Alt1941(s, p) ==
    IF ~LitAt(s, p, <<"1","9","4">>) THEN <<>>
    ELSE LET paren(q) == /\ q + 2 <= Len(s)
                         /\ s[q] = "("
                         /\ UpperChar(s[q + 1]) \in {"A", "B"}
                         /\ s[q + 2] = ")"
             with1 == IF LitAt(s, p + 3, <<"1">>) /\ paren(p + 4)
                      THEN <<p + 7>> ELSE <<>>
             without == IF paren(p + 3) THEN <<p + 6>> ELSE <<>>
         IN  with1 \o without

\* 196[A-Z]*
Alt196(s, p) ==
    IF ~LitAt(s, p, <<"1","9","6">>) THEN <<>>
    ELSE Descending(p + 3, RunLen(s, p + 3, "letter"))

\* 206C[A-Z]
Alt206C(s, p) ==
    IF LitAt(s, p, <<"2","0","6","C">>) /\ p + 4 <= Len(s) /\ IsLetter(s[p + 4])
    THEN <<p + 5>> ELSE <<>>

\* the alternatives of group 2 tried at p, in the pattern's order, the empty
\* alternative (the branch after the last |) at the end: every position
\* where group 2 may end, in the order the matcher tries them
GroupTwoEnds(s, p) ==
    Alt192(s, p) \o AltLit(s, p, <<"1","9","3">>) \o Alt194(s, p)
        \o Alt1941(s, p) \o AltLit(s, p, <<"1","9","5">>) \o Alt196(s, p)
        \o Alt206C(s, p) \o <<p>>

\* the first end of group 2 that the trailing \s+ accepts, or 0
RECURSIVE FirstSpaced(_, _, _)
FirstSpaced(s, ends, k) ==
    IF k > Len(ends) THEN 0
    ELSE IF ends[k] <= Len(s) /\ IsSpace(s[ends[k]]) THEN ends[k]
    ELSE FirstSpaced(s, ends, k + 1)

\* the first \s+ tried at each of its lengths, longest first: the start of
\* group 2 and its end, or <<0, 0>>
RECURSIVE TryGaps(_, _, _)
TryGaps(s, from, w) ==
    IF w < 1 THEN <<0, 0>>
    ELSE LET e == FirstSpaced(s, GroupTwoEnds(s, from + w), 1)
         IN  IF e # 0 THEN <<from + w, e>> ELSE TryGaps(s, from, w - 1)

\* re.match(section_pattern, line, re.IGNORECASE): [matched, group2].
\* ^(\d+) takes the whole leading digit run (with fewer digits the next
\* character is a digit and \s+ fails).
section_match(line) ==
    LET d == RunLen(line, 1, "digit")
        w == RunLen(line, d + 1, "space")
        g == TryGaps(line, d + 1, w)
    IN  IF d >= 1 /\ w >= 1 /\ g[1] # 0
        THEN [matched |-> TRUE, group2 |-> SubSeq(line, g[1], g[2] - 1)]
        ELSE [matched |-> FALSE, group2 |-> <<>>]

\* -?[\d,]+\.\d{2} matched at p: the position after the match, or 0.  The
\* class run is greedy and must be followed by the point, so only the whole
\* run can match.
AmountEnd(s, p) ==
    LET q == IF p <= Len(s) /\ s[p] = "-" THEN p + 1 ELSE p
        n == RunLen(s, q, "amount")
        e == q + n
    IN  IF /\ n >= 1
           /\ e + 2 <= Len(s)
           /\ s[e] = "." /\ IsDigit(s[e + 1]) /\ IsDigit(s[e + 2])
        THEN e + 3 ELSE 0

\* re.findall(r'(-?[\d,]+\.\d{2})', line): the non-overlapping matches,
\* scanning from the left
RECURSIVE FindAllFrom(_, _)
FindAllFrom(s, p) ==
    IF p > Len(s) THEN <<>>
    ELSE LET e == AmountEnd(s, p)
         IN  IF e # 0 THEN <<SubSeq(s, p, e - 1)>> \o FindAllFrom(s, e)
             ELSE FindAllFrom(s, p + 1)

FindAmounts(line) == FindAllFrom(line, 1)

-----------------------------------------------------------------------------
(* float(): amounts are Python floats (IEEE-754 binary64).  A magnitude is *)
(* a fixed-point bit string, most significant bit first, IntBits bits      *)
(* before the binary point and FracBits after it; every value the scan     *)
(* produces is kept rounded to Mantissa significant bits, ties to even,    *)
(* as the hardware rounds it.                                              *)

\* significant bits of a Python float
Mantissa == 53

\* bits kept before the binary point: the amounts of the input lines and
\* their totals stay below 2^IntBits
IntBits == 20

\* bits kept after the binary point: enough for the 53 significant bits of
\* 0.01, the smallest positive amount with two decimals
FracBits == 60

NBits == IntBits + FracBits

ZeroBits == [k \in 1..NBits |-> 0]

\* the integer n in w bits
IntToBits(n, w) == [k \in 1..w |-> (n \div (2 ^ (w - k))) % 2]

\* 2^j mod 100
RECURSIVE PowTwoMod(_)
PowTwoMod(j) == IF j = 0 THEN 1 ELSE (2 * PowTwoMod(j - 1)) % 100

\* what is left of r/100 (0 <= r < 100) after j binary digits, times 100
FracRem(r, j) == (r * PowTwoMod(j)) % 100

\* the first n binary digits of r/100, by long division, and what is left
FracDiv(r, n) ==
    [bits |-> [j \in 1..n |-> IF 2 * FracRem(r, j - 1) >= 100 THEN 1 ELSE 0],
     rem  |-> FracRem(r, n)]

\* the carry into bit k of a + b: some lower position j produces a carry
\* (both bits set) and every position between passes it on
CarryInto(a, b, k) ==
    \E j \in (k + 1)..Len(a) :
        /\ a[j] = 1 /\ b[j] = 1
        /\ \A m \in (k + 1)..(j - 1) : a[m] + b[m] = 1

\* a + b on bit strings of equal length (the carry out of the first bit
\* is dropped: values stay below 2^IntBits)
AddBits(a, b) ==
    [k \in 1..Len(a) |->
        (a[k] + b[k] + (IF CarryInto(a, b, k) THEN 1 ELSE 0)) % 2]

\* round to nearest, ties to even, at Mantissa significant bits; sticky says
\* that the exact value has further non-zero digits beyond the bit string
RoundToMantissa(bits, sticky) ==
    LET ones == {k \in 1..Len(bits) : bits[k] = 1}
    IN  IF ones = {} THEN bits
        ELSE LET lead == CHOOSE k \in ones : \A m \in ones : k <= m
                 last == lead + Mantissa - 1
             IN  IF last >= Len(bits) THEN bits
                 ELSE LET guard == bits[last + 1]
                          more  == sticky \/ \E k \in ones : k > last + 1
                          up    == guard = 1 /\ (more \/ bits[last] = 1)
                          trunc == [k \in 1..Len(bits) |->
                                       IF k <= last THEN bits[k] ELSE 0]
                          ulp   == [k \in 1..Len(bits) |->
                                       IF k = last THEN 1 ELSE 0]
                      IN  IF up THEN AddBits(trunc, ulp) ELSE trunc

\* x + y for two floats that are not negative
FloatAdd(x, y) == RoundToMantissa(AddBits(x, y), FALSE)

\* the decimal digits ds as a number
RECURSIVE DecimalValue(_, _)
DecimalValue(ds, k) ==
    IF k = 0 THEN 0 ELSE 10 * DecimalValue(ds, k - 1) + DigitVal(ds[k])

\* float(token.replace(',', '')) for a token of FindAmounts: the sign and
\* the magnitude.  Such a token always parses: after the commas are removed
\* it is an optional minus, digits (possibly none), a point and two digits,
\* so ValueError is never raised.
ParseFloat(token) ==
    LET neg    == token[1] = "-"
        body   == SelectSeq(token, LAMBDA c : IsDigit(c))
        nint   == Len(body) - 2
        whole  == DecimalValue(body, nint)
        cents  == 10 * DigitVal(body[nint + 1]) + DigitVal(body[nint + 2])
        fd     == FracDiv(cents, FracBits)
    IN  [neg |-> neg,
         mag |-> RoundToMantissa(IntToBits(whole, IntBits) \o fd.bits,
                                 fd.rem # 0)]

\* x < 0 (float('-0.00') is -0.0, which is not below zero)
IsNegative(x) == x.neg /\ x.mag # ZeroBits

-----------------------------------------------------------------------------
(* parse_form_26as_sectionwise: the steps of one loop iteration            *)

\* section_summary = {}
EmptySummary == [k \in {} |-> 0]

\* UpdateMarkers without the PART II test: the TDS section never ends
UpdateMarkers_NeverCloses(flag, line) ==
    IF SearchPartI(line) THEN TRUE ELSE flag

\* the two marker tests at the top of the loop body: PART I opens the TDS
\* section, then PART II closes it
UpdateMarkers(flag, line) ==
    LET opened == IF SearchPartI(line) THEN TRUE ELSE flag
    IN  IF SearchPartII(line) THEN FALSE ELSE opened

\* the amount paid taken from the first amount of the line
receipt_amount_First(amounts) == ParseFloat(amounts[1])

\* float(amounts[-3].replace(',', ''))
receipt_amount(amounts) == ParseFloat(amounts[Len(amounts) - 2])

\* float(amounts[-1].replace(',', ''))
tds_amount(amounts) == ParseFloat(amounts[Len(amounts)])

\* RULE 1 testing the amount paid only
HasNegativeFigure_ReceiptOnly(amounts) ==
    IsNegative(receipt_amount(amounts))

\* RULE 1: receipt_amount < 0 or tds_amount < 0
HasNegativeFigure(amounts) ==
    IsNegative(receipt_amount(amounts)) \/ IsNegative(tds_amount(amounts))

\* the totals assigned instead of added to (= for +=)
AddRecord_Overwrite(summary, section, receipt, tds) ==
    LET old == IF section \in DOMAIN summary THEN summary[section]
               ELSE [total_receipts |-> ZeroBits, total_tds |-> ZeroBits,
                     transaction_count |-> 0]
        new == [total_receipts |-> FloatAdd(ZeroBits, receipt.mag),
                total_tds |-> FloatAdd(ZeroBits, tds.mag),
                transaction_count |-> old.transaction_count + 1]
    IN  [k \in DOMAIN summary \cup {section} |->
            IF k = section THEN new ELSE summary[k]]

\* the update of section_summary for one accepted row (both amounts >= 0)
AddRecord(summary, section, receipt, tds) ==
    LET old == IF section \in DOMAIN summary THEN summary[section]
               ELSE [total_receipts |-> ZeroBits, total_tds |-> ZeroBits,
                     transaction_count |-> 0]
        new == [total_receipts |-> FloatAdd(old.total_receipts, receipt.mag),
                total_tds |-> FloatAdd(old.total_tds, tds.mag),
                transaction_count |-> old.transaction_count + 1]
    IN  [k \in DOMAIN summary \cup {section} |->
            IF k = section THEN new ELSE summary[k]]

\* one pass of the loop body over the raw line: the flag and the summary
\* after it
LoopBody(flag, summary, raw) ==
    LET line    == Strip(raw)
        flag2   == UpdateMarkers(flag, line)
        m       == section_match(line)
        amounts == FindAmounts(line)
    IN  IF m.matched /\ flag2 /\ Len(amounts) >= 3
           /\ ~HasNegativeFigure(amounts)
        THEN [flag |-> flag2,
              summary |-> AddRecord(summary, normalize_section(m.group2),
                                    receipt_amount(amounts),
                                    tds_amount(amounts))]
        ELSE [flag |-> flag2, summary |-> summary]

\* the whole function on the lines of a text: the returned section_summary
RECURSIVE ScanFrom(_, _, _, _)
ScanFrom(ls, k, flag, summary) ==
    IF k > Len(ls) THEN summary
    ELSE LET r == LoopBody(flag, summary, ls[k])
         IN  ScanFrom(ls, k + 1, r.flag, r.summary)

parse_form_26as_sectionwise(ls) == ScanFrom(ls, 1, FALSE, EmptySummary)

-----------------------------------------------------------------------------
(* The scan as a state machine.  lines is text.split('\n'); i is the       *)
(* position of the next line, counted from 1.                              *)

\* line = lines[i].strip()
line == Strip(lines[i])

Scanning == pc = "scan" /\ i <= Len(lines)

\* the line is no data row, or the scan is outside the TDS section
SkipLine ==
    /\ Scanning
    /\ ~(section_match(line).matched /\ UpdateMarkers(in_tds_section, line))
    /\ in_tds_section' = UpdateMarkers(in_tds_section, line)
    /\ i' = i + 1
    /\ UNCHANGED <<lines, section_summary, pc>>

\* a data row with fewer than three amounts
TooFewAmounts ==
    /\ Scanning
    /\ section_match(line).matched /\ UpdateMarkers(in_tds_section, line)
    /\ Len(FindAmounts(line)) < 3
    /\ in_tds_section' = UpdateMarkers(in_tds_section, line)
    /\ i' = i + 1
    /\ UNCHANGED <<lines, section_summary, pc>>

\* RULE 1: a negative figure; i += 1; continue
IgnoreNegative ==
    /\ Scanning
    /\ section_match(line).matched /\ UpdateMarkers(in_tds_section, line)
    /\ Len(FindAmounts(line)) >= 3
    /\ HasNegativeFigure(FindAmounts(line))
    /\ in_tds_section' = UpdateMarkers(in_tds_section, line)
    /\ i' = i + 1
    /\ UNCHANGED <<lines, section_summary, pc>>

\* the row is added to its section
Accumulate ==
    /\ Scanning
    /\ section_match(line).matched /\ UpdateMarkers(in_tds_section, line)
    /\ Len(FindAmounts(line)) >= 3
    /\ ~HasNegativeFigure(FindAmounts(line))
    /\ section_summary' =
          AddRecord(section_summary,
                    normalize_section(section_match(line).group2),
                    receipt_amount(FindAmounts(line)),
                    tds_amount(FindAmounts(line)))
    /\ in_tds_section' = UpdateMarkers(in_tds_section, line)
    /\ i' = i + 1
    /\ UNCHANGED <<lines, pc>>

\* the loop ends: return section_summary
Return ==
    /\ pc = "scan"
    /\ i > Len(lines)
    /\ pc' = "done"
    /\ UNCHANGED <<lines, i, in_tds_section, section_summary>>

Next == SkipLine \/ TooFewAmounts \/ IgnoreNegative \/ Accumulate \/ Return

\* the texts of at most n lines over a set of lines (split never returns
\* an empty list)
Texts(catalogue, n) == UNION {[1..m -> catalogue] : m \in 1..n}

InitOver(catalogue, n) ==
    /\ lines \in Texts(catalogue, n)
    /\ i = 1
    /\ in_tds_section = FALSE
    /\ section_summary = EmptySummary
    /\ pc = "scan"

-----------------------------------------------------------------------------
(* Input lines: the lines of extracted Form 26AS text the scans run over.  *)

\* "PART I"
LinePartI ==
    <<"P","A","R","T"," ","I">>

\* "PART II"
LinePartII ==
    <<"P","A","R","T"," ","I","I">>

\* "1 194A 50000.00 5000.00 5000.00"
RowA ==
    <<"1"," ","1","9","4","A"," ","5","0","0","0","0",".","0","0"," ","5","0","0","0",".","0","0"," ","5","0","0","0",".","0","0">>

\* "2 194C 10000.00 1000.00 1000.00"
RowC ==
    <<"2"," ","1","9","4","C"," ","1","0","0","0","0",".","0","0"," ","1","0","0","0",".","0","0"," ","1","0","0","0",".","0","0">>

\* "194A  50000.00  5000.00  5000.00"
RowNoSerial ==
    <<"1","9","4","A"," "," ","5","0","0","0","0",".","0","0"," "," ","5","0","0","0",".","0","0"," "," ","5","0","0","0",".","0","0">>

\* "3 194A -100.00 10.00 10.00"
RowNegPaid ==
    <<"3"," ","1","9","4","A"," ","-","1","0","0",".","0","0"," ","1","0",".","0","0"," ","1","0",".","0","0">>

\* "4 194A 100.00 10.00 -10.00"
RowNegDeposited ==
    <<"4"," ","1","9","4","A"," ","1","0","0",".","0","0"," ","1","0",".","0","0"," ","-","1","0",".","0","0">>

\* "5 194C 100.00 -10.00 10.00"
RowNegDeducted ==
    <<"5"," ","1","9","4","C"," ","1","0","0",".","0","0"," ","-","1","0",".","0","0"," ","1","0",".","0","0">>

\* "6 194C 1 20000.00 19500.00 1950.00 1950.00"
RowFive ==
    <<"6"," ","1","9","4","C"," ","1"," ","2","0","0","0","0",".","0","0"," ","1","9","5","0","0",".","0","0"," ","1","9","5","0",".","0","0"," ","1","9","5","0",".","0","0">>

\* "7 194A 100.00 10.00"
RowTwoAmounts ==
    <<"7"," ","1","9","4","A"," ","1","0","0",".","0","0"," ","1","0",".","0","0">>

\* "8 194A PART I 100.00 10.00 10.00"
RowWithMarker ==
    <<"8"," ","1","9","4","A"," ","P","A","R","T"," ","I"," ","1","0","0",".","0","0"," ","1","0",".","0","0"," ","1","0",".","0","0">>

\* "9  ACME 100.00 10.00 10.00"
RowNoCode ==
    <<"9"," "," ","A","C","M","E"," ","1","0","0",".","0","0"," ","1","0",".","0","0"," ","1","0",".","0","0">>

\* "10 194IA 100.00 10.00 10.00"
RowIA ==
    <<"1","0"," ","1","9","4","I","A"," ","1","0","0",".","0","0"," ","1","0",".","0","0"," ","1","0",".","0","0">>

\* "11 194I(a) 100.00 10.00 10.00"
RowIParenA ==
    <<"1","1"," ","1","9","4","I","(","a",")"," ","1","0","0",".","0","0"," ","1","0",".","0","0"," ","1","0",".","0","0">>

\* "1 194A 0.10 0.00 0.10"
RowTen ==
    <<"1"," ","1","9","4","A"," ","0",".","1","0"," ","0",".","0","0"," ","0",".","1","0">>

\* "2 194A 0.20 0.00 0.20"
RowTwenty ==
    <<"2"," ","1","9","4","A"," ","0",".","2","0"," ","0",".","0","0"," ","0",".","2","0">>

\* "3 194A 0.30 0.00 0.30"
RowThirty ==
    <<"3"," ","1","9","4","A"," ","0",".","3","0"," ","0",".","0","0"," ","0",".","3","0">>

-----------------------------------------------------------------------------
(* Specifications: the same scan over different sets of input lines.       *)

\* longest text, in lines
MaxLines == 3

\* longest text of the ordering scans, in lines: a marker and three rows
MaxOrderLines == 4

\* markers, rows inside and outside the TDS section
GateLines ==
    {LinePartI, LinePartII, RowA, RowWithMarker, RowNegPaid, RowTwoAmounts}

\* rows that differ in their amounts
AmountLines ==
    {LinePartI, RowA, RowNegPaid, RowNegDeposited, RowNegDeducted, RowFive,
     RowTwoAmounts}

\* rows that differ in how the section code is written
CodeLines ==
    {LinePartI, RowA, RowNoSerial, RowNoCode, RowIA, RowIParenA, RowNegPaid,
     RowTwoAmounts}

\* a mix of all kinds
MixedLines ==
    {LinePartI, LinePartII, RowA, RowC, RowNegPaid, RowNegDeducted,
     RowTwoAmounts, RowNoCode}

\* rows of one section whose amounts are not exact in binary
OrderLines ==
    {LinePartI, RowTen, RowTwenty, RowThirty, RowNegPaid, RowTwoAmounts}

InitGate == InitOver(GateLines, MaxLines)
InitAmounts == InitOver(AmountLines, MaxLines)
InitCodes == InitOver(CodeLines, MaxLines)
Init == InitOver(MixedLines, MaxLines)
InitOrder == InitOver(OrderLines, MaxOrderLines)

SpecGate == InitGate /\ [][Next]_vars
SpecAmounts == InitAmounts /\ [][Next]_vars
SpecCodes == InitCodes /\ [][Next]_vars
Spec == Init /\ [][Next]_vars
SpecOrder == InitOrder /\ [][Next]_vars

-----------------------------------------------------------------------------
(* Vocabulary of the properties                                            *)

\* the section codes written on the input lines, and the keys they get
Code194A == <<"1","9","4","A">>
Code194C == <<"1","9","4","C">>
Code194IA == <<"1","9","4","I","A">>
Code194IParenA == <<"1","9","4","I","(","a",")">>

SectionCodeTokens == {Code194A, Code194C, Code194IA, Code194IParenA}

\* amounts as written
Text50000 == <<"5","0","0","0","0",".","0","0">>
Text5000 == <<"5","0","0","0",".","0","0">>
Text19500 == <<"1","9","5","0","0",".","0","0">>
Text1950 == <<"1","9","5","0",".","0","0">>

\* the amount token t is written with a minus sign and is not zero
WrittenNegative(t) ==
    /\ t[1] = "-"
    /\ \E k \in 1..Len(t) : IsDigit(t[k]) /\ t[k] # "0"

\* the k-th of the last three amounts of a row: 1 paid, 2 deducted, 3 deposited
Trailing(amounts, k) == amounts[Len(amounts) - 3 + k]

\* the entry of a section, all zero when the section has none yet
EntryOf(summary, key) ==
    IF key \in DOMAIN summary THEN summary[key]
    ELSE [total_receipts |-> ZeroBits, total_tds |-> ZeroBits,
          transaction_count |-> 0]

\* the step adds one row with amounts paid and deposited to section key and
\* changes nothing else
AggregatedUnder(key, paid, deposited) ==
    /\ DOMAIN section_summary' = DOMAIN section_summary \cup {key}
    /\ \A k \in DOMAIN section_summary : k # key =>
           section_summary'[k] = section_summary[k]
    /\ section_summary'[key].transaction_count =
           EntryOf(section_summary, key).transaction_count + 1
    /\ section_summary'[key].total_receipts =
           FloatAdd(EntryOf(section_summary, key).total_receipts,
                    ParseFloat(paid).mag)
    /\ section_summary'[key].total_tds =
           FloatAdd(EntryOf(section_summary, key).total_tds,
                    ParseFloat(deposited).mag)

\* the stripped k-th line
LineAt(k) == Strip(lines[k])

IsMarkerLine(k) == SearchPartI(LineAt(k)) \/ SearchPartII(LineAt(k))

-----------------------------------------------------------------------------
(* C1: rows after PART II                                                  *)

\* line k comes after a line matching PART II, and no line after that one
\* and before line k matches PART I
AfterPartII(k) ==
    \E j \in 1..(k - 1) :
        /\ SearchPartII(LineAt(j))
        /\ \A m \in (j + 1)..(k - 1) : ~SearchPartI(LineAt(m))

\* C1 as stated: a line that comes after a line matching PART II, with no
\* later line matching PART I before it, leaves the section summary as it
\* was, whatever it holds.
C1_RowAfterPartIIIgnored ==
    [][(Scanning /\ AfterPartII(i)) => section_summary' = section_summary]_vars

\* C1 amended: a line that comes after a line matching PART II, with no
\* later line matching PART I before it, and that does not itself match
\* PART I, leaves the section summary as it was.
C1_RowAfterPartIIIgnoredUnlessMarker ==
    [][(Scanning /\ AfterPartII(i) /\ ~SearchPartI(line))
           => section_summary' = section_summary]_vars

\* C1 witness: PART I, PART II, then a well-formed row: the row was scanned
\* and nothing was recorded
C1_Witness ==
    /\ lines = <<LinePartI, LinePartII, RowA>>
    /\ i = 4
    /\ section_summary = EmptySummary

-----------------------------------------------------------------------------
(* C2: texts without part markers                                          *)

\* line k is a well-formed row: it matches the row pattern with a section
\* code and carries exactly three amounts, none written negative
WellFormedRow(k) ==
    /\ section_match(LineAt(k)).matched
    /\ section_match(LineAt(k)).group2 \in SectionCodeTokens
    /\ Len(FindAmounts(LineAt(k))) = 3
    /\ \A n \in 1..3 : ~WrittenNegative(FindAmounts(LineAt(k))[n])

\* C2 as stated: when no line of the text matches PART I or PART II, every
\* line counts as inside the relevant part, so once the scan has returned
\* every well-formed row has an entry under its section.
C2_NoMarkerMeansRelevant ==
    (pc = "done" /\ \A k \in 1..Len(lines) : ~IsMarkerLine(k))
        => \A k \in 1..Len(lines) :
               WellFormedRow(k) =>
                   normalize_section(section_match(LineAt(k)).group2)
                       \in DOMAIN section_summary

-----------------------------------------------------------------------------
(* C3, C4: negative figures                                                *)

\* C3: a line with at least three amounts whose amount paid (third from
\* last) or tax deposited (last) is negative leaves the section summary
\* exactly as it was, and the scan moves on to the next line.
C3_NegativePaidOrDepositedIgnored ==
    [][(/\ Scanning
        /\ Len(FindAmounts(line)) >= 3
        /\ \/ WrittenNegative(Trailing(FindAmounts(line), 1))
           \/ WrittenNegative(Trailing(FindAmounts(line), 3)))
           => (section_summary' = section_summary /\ i' = i + 1)]_vars

\* C3 witness: inside the TDS section a row with a negative amount paid was
\* scanned after an accepted row, and only the accepted row is recorded
C3_Witness ==
    /\ lines = <<LinePartI, RowA, RowNegPaid>>
    /\ i = 4
    /\ in_tds_section
    /\ DOMAIN section_summary = {Code194A}
    /\ section_summary[Code194A].transaction_count = 1

\* C4 as stated: a line with at least three amounts of which any of the
\* last three (paid, deducted, deposited) is negative leaves the section
\* summary exactly as it was.
C4_AnyNegativeIgnored ==
    [][(/\ Scanning
        /\ Len(FindAmounts(line)) >= 3
        /\ \E n \in 1..3 : WrittenNegative(Trailing(FindAmounts(line), n)))
           => section_summary' = section_summary]_vars

-----------------------------------------------------------------------------
(* C5: the last three amounts                                              *)

\* C5: whenever a step changes the summary, the line has n >= 3 amounts and
\* exactly one section gains one row whose amount paid is the third amount
\* from the end and whose tax deposited is the last; no earlier amount has
\* any effect.
C5_LastThreeAmounts ==
    [][(Scanning /\ section_summary' # section_summary)
           => /\ Len(FindAmounts(line)) >= 3
              /\ \E key \in DOMAIN section_summary' :
                     AggregatedUnder(key, Trailing(FindAmounts(line), 1),
                                     Trailing(FindAmounts(line), 3))]_vars

\* C5 witness: the row with the amounts 20000.00 19500.00 1950.00 1950.00
\* was accepted with 19500.00 paid and 1950.00 deposited
C5_Witness ==
    /\ lines = <<LinePartI, RowFive>>
    /\ i = 3
    /\ DOMAIN section_summary = {Code194C}
    /\ section_summary[Code194C].total_receipts = ParseFloat(Text19500).mag
    /\ section_summary[Code194C].total_tds = ParseFloat(Text1950).mag
    /\ section_summary[Code194C].transaction_count = 1

-----------------------------------------------------------------------------
(* C6: what a data row looks like                                          *)

\* the text from position p up to the next blank
TokenAt(s, p) ==
    LET blanks == {k \in p..Len(s) : IsSpace(s[k])}
        stop   == IF blanks = {} THEN Len(s) + 1
                  ELSE CHOOSE k \in blanks : \A m \in blanks : k <= m
    IN  SubSeq(s, p, stop - 1)

\* exactly three amounts, none written negative
ThreeNonNegative(s) ==
    /\ Len(FindAmounts(s)) = 3
    /\ \A n \in 1..3 : ~WrittenNegative(FindAmounts(s)[n])

\* where the second token starts when the line begins with digits and blanks
AfterSerial(s) == RunLen(s, 1, "digit") + RunLen(s, RunLen(s, 1, "digit") + 1, "space") + 1

\* the line begins with a serial number, blanks and a section code
SerialThenCode(s) ==
    /\ RunLen(s, 1, "digit") >= 1
    /\ RunLen(s, RunLen(s, 1, "digit") + 1, "space") >= 1
    /\ TokenAt(s, AfterSerial(s)) \in SectionCodeTokens

-----------------------------------------------------------------------------
(* C7: the summary is the fold of the accepted rows                        *)

\* line k is scanned inside the TDS section: the last marker line up to and
\* including k opens the section and does not close it
InsidePart(k) ==
    LET ms == {m \in 1..k : IsMarkerLine(m)}
    IN  /\ ms # {}
        /\ ~SearchPartII(LineAt(CHOOSE m \in ms : \A n \in ms : n <= m))

\* line k is an accepted row
AcceptedRow(k) ==
    /\ InsidePart(k)
    /\ section_match(LineAt(k)).matched
    /\ Len(FindAmounts(LineAt(k))) >= 3
    /\ ~WrittenNegative(Trailing(FindAmounts(LineAt(k)), 1))
    /\ ~WrittenNegative(Trailing(FindAmounts(LineAt(k)), 3))

\* the normalized section of line k
KeyOfRow(k) == normalize_section(section_match(LineAt(k)).group2)

\* the sum, in the order of the lines, of the n-th trailing amount over the
\* accepted rows of section key among the first k lines
RECURSIVE SumOfRows(_, _, _)
SumOfRows(key, k, n) ==
    IF k = 0 THEN ZeroBits
    ELSE IF AcceptedRow(k) /\ KeyOfRow(k) = key
         THEN FloatAdd(SumOfRows(key, k - 1, n),
                       ParseFloat(Trailing(FindAmounts(LineAt(k)), n)).mag)
         ELSE SumOfRows(key, k - 1, n)

\* C7: after any prefix of the lines, the keys of the summary are exactly
\* the normalized sections of the accepted rows of the prefix; each entry's
\* total_receipts and total_tds are the sums of the amount paid and of the
\* tax deposited over those rows, its transaction_count is their number and
\* is at least 1.  (A line that is not accepted therefore changes nothing
\* and creates no entry.)
C7_SummaryOfAcceptedRows ==
    LET done == {k \in 1..(i - 1) : AcceptedRow(k)}
    IN  /\ DOMAIN section_summary = {KeyOfRow(k) : k \in done}
        /\ \A key \in DOMAIN section_summary :
              /\ section_summary[key].total_receipts = SumOfRows(key, i - 1, 1)
              /\ section_summary[key].total_tds = SumOfRows(key, i - 1, 3)
              /\ section_summary[key].transaction_count =
                     Cardinality({k \in done : KeyOfRow(k) = key})
              /\ section_summary[key].transaction_count >= 1

\* C7 witness: the marker line, which changes nothing, then two accepted
\* rows of one section: the section counts two rows and holds their sum
C7_Witness ==
    /\ Len(lines) = 3
    /\ lines[1] = LinePartI /\ lines[2] = RowA /\ lines[3] = RowA
    /\ i = 4
    /\ section_summary[Code194A].transaction_count = 2
    /\ section_summary[Code194A].total_receipts =
           FloatAdd(ParseFloat(Text50000).mag, ParseFloat(Text50000).mag)

-----------------------------------------------------------------------------
(* C8: order of the rows                                                   *)

\* the text with lines j and k exchanged
Swap(ls, j, k) ==
    [n \in 1..Len(ls) |-> IF n = j THEN ls[k] ELSE IF n = k THEN ls[j] ELSE ls[n]]

\* C8 as stated: exchanging two lines of the text that have no part marker
\* on or between them (rows of the same part) gives the same section
\* summary: the same keys, totals and counts.
C8_OrderIndependent ==
    pc = "done" =>
        \A j \in 1..Len(lines) : \A k \in (j + 1)..Len(lines) :
            (\A m \in j..k : ~IsMarkerLine(m))
                => parse_form_26as_sectionwise(Swap(lines, j, k))
                       = section_summary

-----------------------------------------------------------------------------
(* C9, C10: the keys of the summary                                        *)

\* C9 as stated: normalize_section is idempotent, so every key of the
\* summary, being a result of normalize_section, is a fixed point of it.
C9_KeysAreFixedPoints ==
    \A key \in DOMAIN section_summary : normalize_section(key) = key

\* C10 as stated: every key of the summary is the normalization of a
\* non-empty section code found on a scanned line, and no key is empty.
C10_KeysAreSectionCodes ==
    \A key \in DOMAIN section_summary :
        /\ key # <<>>
        /\ \E k \in 1..(i - 1) :
               /\ section_match(LineAt(k)).group2 # <<>>
               /\ key = normalize_section(section_match(LineAt(k)).group2)

====
